---- MODULE Spec2Model ----
(***************************************************************************)
(* Model of the Dream Team Arena: the agent spawner                        *)
(* (src/agents/spawner/spawn_agent.py) and the challenge orchestrator      *)
(* (src/arena/orchestrator.py).                                            *)
(*                                                                         *)
(* Strings the code builds, compares or searches (session names, branch    *)
(* names, command lines, tmux's output) are sequences of tokens: a word    *)
(* such as "dream" or "claude" is one token, "_" is one token and a number *)
(* is its decimal digits, one token each.  The empty sequence stands for   *)
(* both None and "" (Python treats both as false).                         *)
(*                                                                         *)
(* Environment: tmux and git are installed (no FileNotFoundError); a       *)
(* subprocess may exit non-zero, which is the case the code's              *)
(* `except subprocess.CalledProcessError` handlers are written for.        *)
(* Agents do not change the repository's branches themselves.              *)
(***************************************************************************)
EXTENDS Integers, Sequences, FiniteSets, TLC

\* ------------------------------------------------------------------ bounds

MaxAgents == 2

MaxRuns == 2

MaxDirect == 1

\* ------------------------------------------------------- strings as tokens

None == <<>>

DigitTok == <<"0", "1", "2", "3", "4", "5", "6", "7", "8", "9">>

\* str(n) of a non-negative integer, as an f-string formats it.
RECURSIVE Dec(_)
Dec(n) == IF n < 10 THEN <<DigitTok[n + 1]>> ELSE Dec(n \div 10) \o <<DigitTok[(n % 10) + 1]>>

\* s.startswith(p)
StartsWith(s, p) == Len(p) <= Len(s) /\ SubSeq(s, 1, Len(p)) = p

\* p in s (substring)
Contains(s, p) == \E k \in 0..(Len(s) - Len(p)) : SubSeq(s, k + 1, k + Len(p)) = p

\* dict.get(key, default)
Get(d, key, default) == IF key \in DOMAIN d THEN d[key] ELSE default

Range(s) == {s[k] : k \in DOMAIN s}

\* ------------------------------------------------------- spawner constants

REPO_ROOT == <<"/repo">>

AgentTypes == {"claude", "gemini", "codex"}

Tiers == {"default", "fast", "heavy"}

MODELS == [claude |-> [default |-> "sonnet", fast |-> "haiku", heavy |-> "opus"], gemini |-> [default |-> "gemini-2.5-pro", fast |-> "gemini-2.5-flash", heavy |-> "gemini-2.5-pro"], codex |-> [default |-> "gpt-4.1", fast |-> "gpt-4.1-mini", heavy |-> "gpt-4.1"]]

\* The command templates; DQ is the double quote character.
COMMANDS == [claude |-> <<"claude", "--dangerously-skip-permissions", "DQ", "{prompt}", "DQ">>, gemini |-> <<"gemini", "--model", "{model}", "-y", "DQ", "{prompt}", "DQ">>, codex |-> <<"codex", "-m", "{model}", "--dangerously-bypass-approvals-and-sandbox", "DQ", "{prompt}", "DQ">>]

\* prompt.replace('"', '\\"'): every double quote gets a backslash (BS) before it.
RECURSIVE EscapePrompt(_)
EscapePrompt(p) == IF p = <<>> THEN <<>> ELSE (IF Head(p) = "DQ" THEN <<"BS", "DQ">> ELSE <<Head(p)>>) \o EscapePrompt(Tail(p))

\* cmd_template.format(prompt=..., model=...): each placeholder of the template
\* is replaced by its value; an argument the template never names is dropped.
RECURSIVE Format(_, _, _)
Format(tpl, prompt, model) == IF tpl = <<>> THEN <<>> ELSE (CASE Head(tpl) = "{prompt}" -> prompt [] Head(tpl) = "{model}" -> <<model>> [] OTHER -> <<Head(tpl)>>) \o Format(Tail(tpl), prompt, model)

\* self.MODELS.get(agent_type, {}).get(model_tier, "default")
ResolveModel(agent_type, model_tier) == Get(Get(MODELS, agent_type, <<>>), model_tier, "default")

\* ------------------------------------------------------------ challenges

\* Agent types a challenge file may list: a supported one and one the
\* spawner has no command for (the YAML is not validated).
ListedTypes == {"claude", "gpt"}

TypeLists == UNION {[1..n -> ListedTypes] : n \in 0..MaxAgents}

AgentsConfigs == {<<>>, [model_tier |-> "fast"]} \cup {[types |-> t] : t \in TypeLists}

BasePrompt == <<"say", "DQ", "hi", "DQ">>

\* What yaml.safe_load returns for a challenge file; id, name, type and
\* difficulty are always present (prepare() indexes them directly).
Challenges == {[id |-> <<"1">>, name |-> "demo", prompt |-> BasePrompt, agents |-> a] : a \in AgentsConfigs} \cup {[id |-> <<"1">>, name |-> "demo", git |-> [branch_prefix |-> <<"feat">>]]}

Platforms == {"linux", "macos", "windows"}

\* ------------------------------------------------------------------ state

VARIABLES platform, challenge, tmux, runsDir, now, launches, branches, head, pc, runId, prepLog, results, skipSpawn, autoEval, evaluated, monPc, monSeen, directCount

vars == <<platform, challenge, tmux, runsDir, now, launches, branches, head, pc, runId, prepLog, results, skipSpawn, autoEval, evaluated, monPc, monSeen, directCount>>

gitVars == <<branches, head>>

orchVars == <<pc, runId, prepLog, results, skipSpawn, autoEval>>

monVars == <<monPc, monSeen>>

spawnVars == <<tmux, runsDir, now, launches>>

\* What the spawner works on: the tmux server's sessions (in listing order),
\* the files of the runs directory (by session name), the clock, and the
\* history of the launches performed (the dictionary returned and the
\* command launched).
SpawnerState == [tmux |-> tmux, runsDir |-> runsDir, now |-> now, launches |-> launches]

NamesOf(tm) == [k \in DOMAIN tm |-> tm[k].name]

SessionNames == NamesOf(tmux)

ActiveNames == Range(SessionNames)

Remove(s, k) == SubSeq(s, 1, k - 1) \o SubSeq(s, k + 1, Len(s))

\* -------------------------------------------------------------- AgentSpawner

\* The session name spawn() uses: the given one, else
\* "{agent_type}_{timestamp}_{uuid}".
SpawnName(agent_type, session_name, t) == IF session_name = None THEN <<agent_type, "_">> \o Dec(t) \o <<"_", "u">> \o Dec(t) ELSE session_name

\* The command line spawn() builds.
SpawnCmd(agent_type, prompt, model_tier, output_file) == LET cmd == Format(COMMANDS[agent_type], EscapePrompt(prompt), ResolveModel(agent_type, model_tier)) IN IF output_file # None THEN cmd \o <<"2>&1", "|", "tee">> \o output_file ELSE cmd

\* working_dir or str(REPO_ROOT)
WorkDir(working_dir) == IF working_dir # None THEN working_dir ELSE REPO_ROOT

\* Whether the launch subprocess exits 0.  `tmux new-session -d -s name`
\* fails when a session of that name exists; osascript and cmd fail when
\* the environment makes them fail (ok = FALSE).
LaunchOk(tm, name, ok) == IF platform = "linux" THEN name \notin Range(NamesOf(tm)) ELSE ok

\* The result dictionary of _spawn_tmux, _spawn_macos or _spawn_windows.
LaunchResult(tm, name, ok) == IF LaunchOk(tm, name, ok) THEN [success |-> TRUE, message |-> name] ELSE [success |-> FALSE, error |-> "stderr"]

\* The sessions after the launch: tmux holds the new session when it
\* started; Terminal.app and cmd windows are not sessions of tmux.
Launch(tm, name, cmd, work_dir, ok, t) == IF platform = "linux" /\ LaunchOk(tm, name, ok) THEN Append(tm, [name |-> name, cwd |-> work_dir, cmd |-> cmd, born |-> t]) ELSE tm

\* _log_spawn: open(RUNS_DIR / "{session_name}.json", "w") and dump.
LogSpawn(dir, info) == [n \in DOMAIN dir \cup {info.session_name} |-> IF n = info.session_name THEN info ELSE dir[n]]

\* AgentSpawner.spawn on spawner state st: the state after it, the
\* dictionary it returns, or raised when the agent type has no command
\* (ValueError, before anything is launched or written).
spawn(st, agent_type, prompt, session_name, model_tier, working_dir, challenge_id, ok) ==
    IF agent_type \notin DOMAIN COMMANDS
    THEN [raised |-> TRUE, st |-> st, info |-> <<>>]
    ELSE LET name == SpawnName(agent_type, session_name, st.now)
             model == ResolveModel(agent_type, model_tier)
             cmd == SpawnCmd(agent_type, prompt, model_tier, None)
             work_dir == WorkDir(working_dir)
             result == LaunchResult(st.tmux, name, ok)
             info == [session_name |-> name, agent_type |-> agent_type, model |-> model, model_tier |-> model_tier, prompt |-> prompt, working_dir |-> work_dir, challenge_id |-> challenge_id, output_file |-> None, timestamp |-> st.now, platform |-> platform, result |-> result]
         IN [raised |-> FALSE, st |-> [tmux |-> Launch(st.tmux, name, cmd, work_dir, ok, st.now), runsDir |-> LogSpawn(st.runsDir, info), now |-> st.now + 1, launches |-> Append(st.launches, [info |-> info, cmd |-> cmd])], info |-> info]

\* The loop of spawn_multi leaving at the first launch that fails.
RECURSIVE SpawnMultiStopOnFailure(_, _, _, _, _, _)
SpawnMultiStopOnFailure(st, agent_list, challenge_id, oks, k, acc) ==
    IF k > Len(agent_list)
    THEN [raised |-> FALSE, st |-> st, results |-> acc]
    ELSE LET agent == agent_list[k]
             r == spawn(st, agent.type, agent.prompt, Get(agent, "name", None), Get(agent, "model_tier", "default"), None, challenge_id, oks[k])
         IN IF r.raised
            THEN [raised |-> TRUE, st |-> r.st, results |-> acc]
            ELSE IF ~r.info.result.success
            THEN [raised |-> FALSE, st |-> r.st, results |-> Append(acc, r.info)]
            ELSE SpawnMultiStopOnFailure(r.st, agent_list, challenge_id, oks, k + 1, Append(acc, r.info))

\* The loop of spawn_multi from the k-th agent on; oks[k] is whether the
\* environment lets the k-th launch succeed.
RECURSIVE SpawnMultiFrom(_, _, _, _, _, _)
SpawnMultiFrom(st, agent_list, challenge_id, oks, k, acc) ==
    IF k > Len(agent_list)
    THEN [raised |-> FALSE, st |-> st, results |-> acc]
    ELSE LET agent == agent_list[k]
             r == spawn(st, agent.type, agent.prompt, Get(agent, "name", None), Get(agent, "model_tier", "default"), None, challenge_id, oks[k])
         IN IF r.raised
            THEN [raised |-> TRUE, st |-> r.st, results |-> acc]
            ELSE SpawnMultiFrom(r.st, agent_list, challenge_id, oks, k + 1, Append(acc, r.info))

\* spawn_multi(agents, challenge_id)
spawn_multi(st, agent_list, challenge_id, oks) == SpawnMultiFrom(st, agent_list, challenge_id, oks, 1, <<>>)

\* What `tmux list-sessions -F "#{session_name}"` prints: one name per line
\* (NL is the newline), nothing when no session exists.
RECURSIVE JoinLines(_)
JoinLines(names) == IF names = <<>> THEN <<>> ELSE Head(names) \o <<"NL">> \o JoinLines(Tail(names))

TmuxListStdout == JoinLines(SessionNames)

\* str.strip(): leading and trailing whitespace removed.
RECURSIVE Strip(_)
Strip(s) == IF s = <<>> THEN s ELSE IF Head(s) = "NL" THEN Strip(Tail(s)) ELSE IF s[Len(s)] = "NL" THEN Strip(SubSeq(s, 1, Len(s) - 1)) ELSE s

\* str.split("\n"); "".split("\n") is [""].
RECURSIVE SplitLines(_)
SplitLines(s) == IF "NL" \notin Range(s) THEN <<s>> ELSE LET k == CHOOSE j \in DOMAIN s : s[j] = "NL" /\ \A m \in 1..(j - 1) : s[m] # "NL" IN <<SubSeq(s, 1, k - 1)>> \o SplitLines(SubSeq(s, k + 1, Len(s)))

\* ParseSessions without the test for empty output: no session is parsed
\* as one session with the empty name.
ParseSessionsUnguarded(stdout) == SplitLines(Strip(stdout))

\* result.stdout.strip().split("\n") if result.stdout else []
ParseSessions(stdout) == IF stdout # <<>> THEN SplitLines(Strip(stdout)) ELSE <<>>

\* AgentSpawner.list_sessions(agent_type)
list_sessions(agent_type) == IF platform # "linux" THEN <<>> ELSE LET sessions == ParseSessions(TmuxListStdout) IN IF agent_type # None THEN SelectSeq(sessions, LAMBDA n : StartsWith(n, agent_type)) ELSE sessions

\* How tmux resolves `-t target` to a session: the session of exactly that
\* name, else the only session whose name starts with it; 0 when there is
\* none or the start is ambiguous.
TmuxFindTarget(target) == LET exact == {k \in DOMAIN tmux : tmux[k].name = target} within == {k \in DOMAIN tmux : StartsWith(tmux[k].name, target)} IN IF exact # {} THEN CHOOSE k \in exact : TRUE ELSE IF Cardinality(within) = 1 THEN CHOOSE k \in within : TRUE ELSE 0

\* AgentSpawner.kill_session(session_name): the returned dictionary.
KillResult(session_name) == IF platform = "linux" THEN (IF TmuxFindTarget(session_name) # 0 THEN [success |-> TRUE, message |-> session_name] ELSE [success |-> FALSE, error |-> "stderr"]) ELSE [success |-> FALSE, error |-> "Not supported on this platform"]

\* The sessions after kill_session(session_name).
KillEffect(session_name) == IF platform = "linux" /\ TmuxFindTarget(session_name) # 0 THEN Remove(tmux, TmuxFindTarget(session_name)) ELSE tmux

\* ------------------------------------------------------- ChallengeOrchestrator

\* agents_config.get("types", ["claude"])
AgentTypeList == Get(Get(challenge, "agents", <<>>), "types", <<"claude">>)

\* agents_config.get("model_tier", "default")
ModelTier == Get(Get(challenge, "agents", <<>>), "model_tier", "default")

\* self.challenge.get("git", {}).get("branch_prefix", "challenge/agent")
BranchPrefix == Get(Get(challenge, "git", <<>>), "branch_prefix", <<"challenge", "/", "agent">>)

\* f"{branch_prefix}_{agent_type}_{i}", i counted from 0
BranchName(i) == BranchPrefix \o <<"_", AgentTypeList[i + 1], "_">> \o Dec(i)

\* f"dream_{self.challenge['id']}_{agent_type}_{i}"
DreamName(id, agent_type, i) == <<"dream", "_">> \o id \o <<"_", agent_type, "_">> \o Dec(i)

\* _build_prompt(agent_type, index) of run number run
BuildPrompt(agent_type, index, run) == <<"arena", "#">> \o challenge.id \o <<challenge.name, agent_type>> \o Dec(index) \o <<"run">> \o Dec(run) \o Get(challenge, "prompt", <<>>)

\* AgentConfigs with the session names numbered from 1
\* (enumerate(agent_types, 1)).
AgentConfigsFromOne(run) == [k \in DOMAIN AgentTypeList |-> [type |-> AgentTypeList[k], prompt |-> BuildPrompt(AgentTypeList[k], k, run), name |-> DreamName(challenge.id, AgentTypeList[k], k), model_tier |-> ModelTier]]

\* The agent configurations spawn_agents() builds.
AgentConfigs(run) == [k \in DOMAIN AgentTypeList |-> [type |-> AgentTypeList[k], prompt |-> BuildPrompt(AgentTypeList[k], k - 1, run), name |-> DreamName(challenge.id, AgentTypeList[k], k - 1), model_tier |-> ModelTier]]

\* f"dream_{self.challenge['id']}" in s
IsChallengeSession(s) == Contains(s, <<"dream", "_">> \o challenge.id)

\* Whether git refuses to create the branch name: a ref cannot be made
\* when an existing branch is a directory prefix of it ("challenge" blocks
\* "challenge/agent_claude_0") or it is one of an existing branch.
RefConflict(name, existing) == \E b \in existing : StartsWith(name, b \o <<"/">>) \/ StartsWith(b, name \o <<"/">>)

\* `git checkout -b name` on repository g: exits non-zero and changes
\* nothing when the branch exists or cannot be made; else makes the branch
\* at HEAD and checks it out.
GitCheckoutNew(g, name) == IF name \in g.branches \/ RefConflict(name, g.branches) THEN [ok |-> FALSE, g |-> g] ELSE [ok |-> TRUE, g |-> [g EXCEPT !.branches = @ \cup {name}, !.head = name, !.prev = g.head]]

\* `git checkout -`: checks out the branch that was checked out before.
GitCheckoutPrevious(g) == IF g.prev = None THEN [ok |-> FALSE, g |-> g] ELSE [ok |-> TRUE, g |-> [g EXCEPT !.head = g.prev, !.prev = g.head]]

\* PrepareBranch with the exit status of `git checkout -b` ignored (no
\* check=True): a branch git refused to make is reported as created.
PrepareBranchUnchecked(g, i) ==
    LET branch_name == BranchName(i)
        made == GitCheckoutNew(g, branch_name)
        back == GitCheckoutPrevious(made.g)
    IN IF branch_name \in g.branches
       THEN [g EXCEPT !.log = Append(@, "exists")]
       ELSE IF ~made.ok
       THEN [g EXCEPT !.log = Append(@, "created")]
       ELSE [back.g EXCEPT !.log = Append(@, "created")]

\* PrepareBranch that checks an existing branch out instead of leaving the
\* repository alone.
PrepareBranchSwitch(g, i) ==
    LET branch_name == BranchName(i)
        made == GitCheckoutNew(g, branch_name)
        back == GitCheckoutPrevious(made.g)
    IN IF branch_name \in g.branches
       THEN [g EXCEPT !.head = branch_name, !.prev = g.head, !.log = Append(@, "exists")]
       ELSE IF ~made.ok
       THEN [g EXCEPT !.log = Append(@, "failed")]
       ELSE IF ~back.ok
       THEN [made.g EXCEPT !.log = Append(@, "failed")]
       ELSE [back.g EXCEPT !.log = Append(@, "created")]

\* One iteration of the loop of _prepare_branches, for index i, on the
\* repository g (its branches, the branch checked out, the one checked out
\* before, and the lines printed so far).  `git branch --list name` prints
\* the branch when it exists.
PrepareBranch(g, i) ==
    LET branch_name == BranchName(i)
        made == GitCheckoutNew(g, branch_name)
        back == GitCheckoutPrevious(made.g)
    IN IF branch_name \in g.branches
       THEN [g EXCEPT !.log = Append(@, "exists")]
       ELSE IF ~made.ok
       THEN [g EXCEPT !.log = Append(@, "failed")]
       ELSE IF ~back.ok
       THEN [made.g EXCEPT !.log = Append(@, "failed")]
       ELSE [back.g EXCEPT !.log = Append(@, "created")]

\* _prepare_branches: the loop from index i on.
RECURSIVE PrepareFrom(_, _)
PrepareFrom(g, i) == IF i >= Len(AgentTypeList) THEN g ELSE PrepareFrom(PrepareBranch(g, i), i + 1)

_prepare_branches(g) == PrepareFrom(g, 0)

\* ------------------------------------------------------------------- Init

\* Nothing has run: no session, no record, no orchestrator.
InitRest ==
    /\ tmux = <<>>
    /\ runsDir = <<>>
    /\ now = 0
    /\ launches = <<>>
    /\ head = <<"main">>
    /\ pc = "idle"
    /\ runId = 0
    /\ prepLog = <<>>
    /\ results = <<>>
    /\ skipSpawn = FALSE
    /\ autoEval = TRUE
    /\ evaluated = FALSE
    /\ monPc = "off"
    /\ monSeen = <<>>
    /\ directCount = 0

\* The platform, the challenge file, and the repository's branches: main,
\* and in some repositories a branch named challenge.
Init ==
    /\ platform \in Platforms
    /\ challenge \in Challenges
    /\ branches \in {{<<"main">>}, {<<"main">>, <<"challenge">>}}
    /\ InitRest

\* ------------------------------------------------ ChallengeOrchestrator.run

\* A new orchestrator is made for the challenge and run(skip_spawn,
\* auto_evaluate) is called on it: prepare() runs and returns.
Prepare(skip_spawn, auto_evaluate) ==
    /\ pc \in {"idle", "done", "raised"}
    /\ monPc = "off"
    /\ runId < MaxRuns
    /\ runId' = runId + 1
    /\ skipSpawn' = skip_spawn
    /\ autoEval' = auto_evaluate
    /\ results' = <<>>
    /\ LET g == _prepare_branches([branches |-> branches, head |-> head, prev |-> None, log |-> <<>>])
       IN /\ branches' = g.branches
          /\ head' = g.head
          /\ prepLog' = g.log
    /\ evaluated' = FALSE
    /\ pc' = "prepared"
    /\ UNCHANGED <<platform, challenge, spawnVars, monVars, directCount>>

\* run() calls spawn_agents(), which builds the agent configurations and
\* calls spawn_multi.  A ValueError of spawn() is caught nowhere: it ends
\* the run.
SpawnAgents(oks) ==
    /\ pc = "prepared"
    /\ ~skipSpawn
    /\ LET r == spawn_multi(SpawnerState, AgentConfigs(runId), challenge.id, oks)
       IN /\ tmux' = r.st.tmux
          /\ runsDir' = r.st.runsDir
          /\ now' = r.st.now
          /\ launches' = r.st.launches
          /\ results' = IF r.raised THEN <<>> ELSE r.results
          /\ pc' = IF r.raised THEN "raised" ELSE "spawned"
    /\ UNCHANGED <<platform, challenge, gitVars, runId, prepLog, skipSpawn, autoEval, evaluated, monVars, directCount>>

\* The end of run(): with auto_evaluate it prints that it is waiting for the
\* agents, and returns.
RunReturn ==
    /\ \/ pc = "spawned"
       \/ pc = "prepared" /\ skipSpawn
    /\ pc' = "done"
    /\ UNCHANGED <<platform, challenge, gitVars, spawnVars, runId, prepLog, results, skipSpawn, autoEval, evaluated, monVars, directCount>>

\* ChallengeOrchestrator.evaluate(), called on the orchestrator after run():
\* evaluated is whether this orchestrator's evaluator has been invoked.
Evaluate ==
    /\ pc = "done"
    /\ monPc = "off"
    /\ ~evaluated
    /\ evaluated' = TRUE
    /\ UNCHANGED <<platform, challenge, gitVars, spawnVars, orchVars, monVars, directCount>>

\* ----------------------------------------------------- ChallengeOrchestrator.monitor

\* monitor() is called on the orchestrator, before or after run().
MonitorStart ==
    /\ pc \in {"idle", "done"}
    /\ monPc = "off"
    /\ monPc' = "poll"
    /\ monSeen' = <<>>
    /\ UNCHANGED <<platform, challenge, gitVars, spawnVars, orchVars, evaluated, directCount>>

\* The loop of monitor() with the break left out: it prints and sleeps
\* whatever the poll finds.
MonitorPollNoBreak ==
    /\ monPc = "poll"
    /\ monSeen' = SelectSeq(list_sessions(None), IsChallengeSession)
    /\ monPc' = "poll"
    /\ UNCHANGED <<platform, challenge, gitVars, spawnVars, orchVars, evaluated, directCount>>

\* One pass of the loop of monitor(): list, filter, and either return or
\* print, sleep and go round again.
MonitorPoll ==
    /\ monPc = "poll"
    /\ LET challenge_sessions == SelectSeq(list_sessions(None), IsChallengeSession)
       IN /\ monSeen' = challenge_sessions
          /\ monPc' = IF challenge_sessions = <<>> THEN "off" ELSE "poll"
    /\ UNCHANGED <<platform, challenge, gitVars, spawnVars, orchVars, evaluated, directCount>>

\* KeyboardInterrupt while monitor() runs.
MonitorInterrupt ==
    /\ monPc = "poll"
    /\ monPc' = "off"
    /\ monSeen' = <<>>
    /\ UNCHANGED <<platform, challenge, gitVars, spawnVars, orchVars, evaluated, directCount>>

\* ------------------------------------------------------- the spawner's callers

\* Session names of other programs: one named as the orchestrator of
\* challenge 10 names its first agent, and one of no challenge.
ForeignNames == {DreamName(<<"1", "0">>, "claude", 0), <<"w">>}

\* AgentSpawner.spawn called by another program than this orchestrator (the
\* `spawn` command, an orchestrator of another challenge).
Spawn(agent_type, session_name, model_tier, working_dir, ok) ==
    /\ directCount < MaxDirect
    /\ directCount' = directCount + 1
    /\ LET r == spawn(SpawnerState, agent_type, <<"go">>, session_name, model_tier, working_dir, None, ok)
       IN /\ tmux' = r.st.tmux
          /\ runsDir' = r.st.runsDir
          /\ now' = r.st.now
          /\ launches' = r.st.launches
    /\ UNCHANGED <<platform, challenge, gitVars, orchVars, evaluated, monVars>>

\* AgentSpawner.list_sessions called directly (the `list`, `monitor` and
\* `status` commands): it reads tmux and changes nothing; what it returns
\* is list_sessions(agent_type).
ListSessions(agent_type) ==
    /\ agent_type \in {None} \cup {<<t>> : t \in AgentTypes}
    /\ UNCHANGED vars

\* The names a caller may pass to kill_session: a session's name, the start
\* of one, or a name no session has.
KillArgs == ActiveNames \cup {SubSeq(n, 1, k) : n \in {m \in ActiveNames : Len(m) >= 3}, k \in 1..3} \cup {<<"zz">>}

\* AgentSpawner.kill_session(session_name); what it returns is
\* KillResult(session_name).
KillSession(session_name) ==
    /\ tmux' = KillEffect(session_name)
    /\ UNCHANGED <<platform, challenge, gitVars, runsDir, now, launches, orchVars, evaluated, monVars, directCount>>

\* The agent's command ends by itself and tmux closes its session.
SessionExit(k) ==
    /\ k \in DOMAIN tmux
    /\ tmux' = Remove(tmux, k)
    /\ UNCHANGED <<platform, challenge, gitVars, runsDir, now, launches, orchVars, evaluated, monVars, directCount>>

\* ------------------------------------------------------------------- Next

Next ==
    \/ \E s, a \in BOOLEAN : Prepare(s, a)
    \/ \E oks \in [1..Len(AgentTypeList) -> BOOLEAN] : SpawnAgents(oks)
    \/ RunReturn
    \/ Evaluate
    \/ MonitorStart
    \/ MonitorPoll
    \/ MonitorInterrupt
    \/ \E n \in ForeignNames : Spawn("claude", n, "default", None, TRUE)
    \/ \E t \in {None, <<"claude">>} : ListSessions(t)
    \/ \E n \in KillArgs : KillSession(n)
    \/ \E k \in DOMAIN tmux : SessionExit(k)

Spec == Init /\ [][Next]_vars

\* ------------------------------------------- monitor() running to its end

\* One challenge file: one claude agent.
MonitorChallenge == [id |-> <<"1">>, name |-> "demo", prompt |-> BasePrompt, agents |-> [types |-> <<"claude">>]]

MonitorInit ==
    /\ platform \in Platforms
    /\ challenge = MonitorChallenge
    /\ branches = {<<"main">>}
    /\ InitRest

\* monitor() is a loop with a sleep in it: while it runs, its next poll
\* does happen.
MonitorSpec == MonitorInit /\ [][Next]_vars /\ WF_vars(MonitorPoll)

\* ------------------------------------- the spawner alone, called directly

DirectTypes == AgentTypes \cup {"gpt"}

DirectTiers == Tiers \cup {"turbo"}

DirectNames == {None, <<"w">>}

DirectDirs == {None, <<"/w">>}

SpawnerInit ==
    /\ platform \in Platforms
    /\ challenge = [id |-> <<"1">>, name |-> "demo"]
    /\ branches = {<<"main">>}
    /\ InitRest

SpawnerNext ==
    \/ \E t \in DirectTypes, n \in DirectNames, m \in DirectTiers, d \in DirectDirs, ok \in BOOLEAN : Spawn(t, n, m, d, ok)
    \/ \E t \in {None, <<"claude">>} : ListSessions(t)
    \/ \E n \in KillArgs : KillSession(n)
    \/ \E k \in DOMAIN tmux : SessionExit(k)

SpawnerSpec == SpawnerInit /\ [][SpawnerNext]_vars

\* ------------------------------------------------------------------ claims

\* prepare() of the current run has returned.
AfterPrepare == pc \in {"prepared", "spawned", "raised", "done"}

\* The indices of the challenge's agents, counted from 0.
AgentIndices == 0..(Len(AgentTypeList) - 1)

\* C1, as stated: after prepare() returns, the branch
\* "{branch_prefix}_{t}_{i}" exists for every index i and type t of the
\* challenge's agents.types list.
C1_AllBranchesExist == AfterPrepare => \A i \in AgentIndices : BranchName(i) \in branches

\* C1, amended: after prepare() returns, every branch of the challenge
\* exists, except those for which `git checkout -b` failed: for each of
\* these prepare() printed "Failed to create branch" and went on.
C1_BranchesExistUnlessGitFailed == AfterPrepare => /\ Len(prepLog) = Len(AgentTypeList)
                                                   /\ \A i \in AgentIndices : BranchName(i) \in branches \/ prepLog[i + 1] = "failed"

\* prepare() has returned for two agents, one branch made and one exists.
C1_Witness == pc = "prepared" /\ Len(AgentTypeList) = 2 /\ \A i \in AgentIndices : BranchName(i) \in branches /\ prepLog[i + 1] = "created"

\* The directory and branch a session started in work_dir works on: the
\* repository has one working tree, REPO_ROOT, with head checked out.
CheckedOut(work_dir) == IF work_dir = REPO_ROOT THEN head ELSE None

\* C2, as stated: every session spawn_agents launched for (t, i) works on its
\* own branch "{branch_prefix}_{t}_{i}", and no two sessions of the run share
\* both the working directory and the checked-out branch.
C2_AgentsIsolated == pc \in {"spawned", "done"} => \A i \in DOMAIN results : results[i].result.success => /\ CheckedOut(results[i].working_dir) = BranchName(i - 1)
                                                                                                        /\ \A j \in DOMAIN results \ {i} : results[j].result.success => results[j].working_dir # results[i].working_dir \/ CheckedOut(results[j].working_dir) # CheckedOut(results[i].working_dir)

\* A step in which spawn_agents() runs.
SpawnAgentsStep == pc = "prepared" /\ pc' \in {"spawned", "raised"}

\* The launches a step performs, in order.
NewLaunches == SubSeq(launches', Len(launches) + 1, Len(launches'))

\* How many entries of the types list come before the first one the spawner
\* has no command for (all of them when every entry is supported).
Launchable == IF \A k \in DOMAIN AgentTypeList : AgentTypeList[k] \in DOMAIN COMMANDS THEN Len(AgentTypeList) ELSE (CHOOSE k \in DOMAIN AgentTypeList : AgentTypeList[k] \notin DOMAIN COMMANDS /\ \A j \in 1..(k - 1) : AgentTypeList[j] \in DOMAIN COMMANDS) - 1

\* The first m entries of the types list are launched, in order, the k-th
\* with its type and the name "dream_{id}_{type}_{k-1}".
LaunchedInOrder(m) == /\ Len(NewLaunches) = m
                      /\ \A k \in 1..m : /\ NewLaunches[k].info.agent_type = AgentTypeList[k]
                                         /\ NewLaunches[k].info.session_name = DreamName(challenge.id, AgentTypeList[k], k - 1)

\* C3, as stated: spawn_agents attempts exactly n launches for n entries, in
\* list order, the i-th with type types[i] and name
\* "dream_{id}_{types[i]}_{i}", and returns the n records in that order.
C3_OneLaunchPerEntry == [][SpawnAgentsStep => /\ LaunchedInOrder(Len(AgentTypeList))
                                              /\ pc' = "spawned"
                                              /\ results' = [k \in 1..Len(AgentTypeList) |-> NewLaunches[k].info]]_vars

\* C3, amended: when every entry is a supported agent type, spawn_agents
\* attempts exactly n launches, in list order, with those types and names,
\* and returns the n records in that order; an entry of another type raises
\* ValueError at its turn: the entries before it have been launched in
\* order, none after it is, and no list is returned.
C3_OneLaunchPerSupportedEntry == [][SpawnAgentsStep => /\ LaunchedInOrder(Launchable)
                                                       /\ pc' = (IF Launchable = Len(AgentTypeList) THEN "spawned" ELSE "raised")
                                                       /\ pc' = "spawned" => results' = [k \in 1..Len(AgentTypeList) |-> NewLaunches[k].info]
                                                       /\ pc' = "raised" => results' = <<>>]_vars

\* spawn_agents has returned two records.
C3_Witness == pc = "spawned" /\ Len(results) = 2 /\ Len(launches) >= 2

\* C4, as stated: the runs directory holds, for every launch performed, a
\* record under that launch's session name equal to the dictionary spawn
\* returned for it.
C4_OneRecordPerLaunch == \A k \in DOMAIN launches : /\ launches[k].info.session_name \in DOMAIN runsDir
                                                    /\ runsDir[launches[k].info.session_name] = launches[k].info

\* C5, as stated: on Linux list_sessions() returns exactly the names tmux
\* holds, and so does every poll of monitor().
C5_ReportsAllSessions == /\ [](platform = "linux" => list_sessions(None) = SessionNames)
                         /\ [][(platform = "linux" /\ MonitorPoll) => monSeen' = SessionNames]_vars

\* C5, amended: on Linux list_sessions() returns exactly the names tmux
\* holds at the call, and every poll of monitor() reports exactly those of
\* them that contain "dream_{id}": no ended session, and every live session
\* of that kind.
C5_ReportsLiveSessions == /\ [](platform = "linux" => list_sessions(None) = SessionNames)
                          /\ [][(platform = "linux" /\ MonitorPoll) => monSeen' = SelectSeq(SessionNames, IsChallengeSession)]_vars

\* monitor() is running and one of the two sessions it last reported has
\* ended since.
C5_Witness == platform = "linux" /\ monPc = "poll" /\ Len(monSeen) = 2 /\ Len(tmux) = 1

\* A step in which _prepare_branches runs again for the challenge.
SecondPrepare == runId >= 1 /\ runId' = runId + 1

\* C6: running _prepare_branches again for the same challenge creates no
\* branch and leaves the set of branches and the checked-out branch as they
\* were after the first run.
C6_PrepareIdempotent == [][SecondPrepare => branches' = branches /\ head' = head /\ "created" \notin Range(prepLog')]_vars

\* The second run has prepared two branches that the first run made.
C6_Witness == runId = 2 /\ pc = "prepared" /\ prepLog = <<"exists", "exists">>

\* C7, as stated: a run() with auto_evaluate that spawned agents has invoked
\* the evaluator by the time it returns.
C7_RunEvaluates == (pc = "done" /\ autoEval /\ ~skipSpawn /\ results # <<>>) => evaluated

\* C8, as stated: for every agent type and tier of the table, the record's
\* model is the MODELS entry, and that model is in the launched command.
C8_ModelInCommand == \A k \in DOMAIN launches : (launches[k].info.agent_type \in AgentTypes /\ launches[k].info.model_tier \in Tiers) => /\ launches[k].info.model = MODELS[launches[k].info.agent_type][launches[k].info.model_tier]
                                                                                                                                      /\ launches[k].info.model \in Range(launches[k].cmd)

\* C9, as stated: on Linux kill_session(n) either succeeds, and then n is
\* not active and every other session still is, or fails and leaves the
\* sessions unchanged, as it does when no session n exists; elsewhere it
\* fails and changes nothing.
C9_KillOnlyNamed == [][\A n \in KillArgs : KillSession(n) => IF platform = "linux"
                                                             THEN /\ n \notin ActiveNames => ~KillResult(n).success
                                                                  /\ \/ KillResult(n).success /\ n \notin ActiveNames' /\ \A m \in ActiveNames \ {n} : m \in ActiveNames'
                                                                     \/ ~KillResult(n).success /\ tmux' = tmux
                                                             ELSE ~KillResult(n).success /\ tmux' = tmux]_vars

\* The launches of the step: each agent at most once, a failed one recorded
\* with success False, not started again, and followed by the next.
FailuresRecordedNotRetried == \A k \in DOMAIN NewLaunches : LET info == NewLaunches[k].info IN
                                  /\ \A j \in DOMAIN NewLaunches \ {k} : NewLaunches[j].info.session_name # info.session_name
                                  /\ runsDir'[info.session_name] = info
                                  /\ ~info.result.success => \A x \in DOMAIN tmux' : tmux'[x].born # info.timestamp
                                  /\ (platform = "linux" /\ info.result.success) => \E x \in DOMAIN tmux' : tmux'[x].name = info.session_name /\ tmux'[x].born = info.timestamp

\* C10, as stated: spawn_multi attempts each agent's launch exactly once; a
\* failed launch is recorded with success False, is not retried and does not
\* prevent the launches after it.
C10_EachLaunchedOnce == [][SpawnAgentsStep => Len(NewLaunches) = Len(AgentTypeList) /\ FailuresRecordedNotRetried]_vars

\* C10, amended: spawn_multi attempts each agent's launch at most once, and
\* exactly once when every listed type is supported; a launch whose
\* subprocess fails is recorded with success False, is not retried and does
\* not prevent the launches after it.  Only an unsupported agent type
\* (ValueError) ends the loop early.
C10_NoRetryNoRecovery == [][SpawnAgentsStep => Len(NewLaunches) = Launchable /\ FailuresRecordedNotRetried]_vars

\* A run whose first launch failed and whose second succeeded.
C10_Witness == platform = "linux" /\ pc = "spawned" /\ Len(results) = 2 /\ ~results[1].result.success /\ results[2].result.success

\* The sessions tmux holds that monitor()'s filter matches.
ChallengeSessions == SelectSeq(SessionNames, IsChallengeSession)

\* C11: each poll of monitor() returns exactly when tmux holds no matching
\* session and otherwise reports the matching sessions and polls again; and
\* once no matching session is left for good, a running monitor() returns
\* ([]no session ~> returned, which is: again and again, a matching session
\* is active or monitor() is not running).
C11_MonitorPollsUntilNoSession ==
    /\ [][MonitorPoll => IF ChallengeSessions = <<>> THEN monPc' = "off" ELSE monPc' = "poll" /\ monSeen' = ChallengeSessions]_vars
    /\ []<>(ChallengeSessions # <<>> \/ monPc = "off")

\* monitor() has polled and gone on, and the sessions it saw have ended since.
C11_Witness == platform = "linux" /\ monPc = "poll" /\ monSeen # <<>> /\ ChallengeSessions = <<>> /\ pc = "done"

\* A name of the form spawn_agents gives the sessions of this challenge:
\* "dream_{id}_{type}_{i}".
OwnSessionName(s) == \E t \in AgentTypes \cup ListedTypes, i \in 0..MaxAgents : s = DreamName(challenge.id, t, i)

\* C12: a poll of monitor() counts exactly the sessions named
\* "dream_{id}_{type}_{i}" for its own challenge id, and goes on polling
\* only while there is one; a session of another challenge id is never
\* counted.
C12_MonitorCountsOwnSessions == [][MonitorPoll => /\ monSeen' = SelectSeq(SessionNames, OwnSessionName)
                                                  /\ monPc' = "poll" <=> \E k \in DOMAIN tmux : OwnSessionName(tmux[k].name)]_vars

\* C13: on Linux, for every active session the record stored under its
\* name reports success and is the record of the launch that created it
\* (same command's working directory, same moment).
C13_RecordsMatchLiveSessions == platform = "linux" => \A k \in DOMAIN tmux : /\ tmux[k].name \in DOMAIN runsDir
                                                                           /\ runsDir[tmux[k].name].result.success
                                                                           /\ runsDir[tmux[k].name].timestamp = tmux[k].born
                                                                           /\ runsDir[tmux[k].name].working_dir = tmux[k].cwd


====
